---- MODULE Spec2Model ----
(***************************************************************************)
(* Model of the GuitarTuner pitch pipeline: the two pitch detectors        *)
(* (YinDetector, AutocorrelationDetector / legacy autoCorrelate), the      *)
(* Tuner session (start button, getUserMedia, stop, the self-rescheduling  *)
(* update() frame callback, the algorithm selector), the smoothing window  *)
(* and the note mapper getNote.                                            *)
(*                                                                         *)
(* JavaScript numbers are modelled as exact rationals n/d extended with    *)
(* the IEEE special values NaN, +Infinity, -Infinity, and with the value   *)
(* `undefined` that an out-of-range array read produces.  Rounding of      *)
(* finite results (double / Float32Array storage) is not modelled in the   *)
(* detectors: the sample values used are dyadic, so sums and products are  *)
(* exact, and quotients are kept as exact rationals.  The logarithm of     *)
(* getNote has no exact rational value: its result is held to the nearest  *)
(* hundredth of a semitone, as the program holds it to the nearest double. *)
(*                                                                         *)
(* The second source file is the earlier single-detector Tuner: its        *)
(* autoCorrelate is AutocorrelationDetector.getPitch line for line, and    *)
(* its update() is the one modelled here without the isNaN test and        *)
(* without the algorithm selector.  The DOM elements are left out, apart   *)
(* from the note handed to updateUI.                                       *)
(*                                                                         *)
(* Spec is the session; SpecDetect runs one frame of update() on every     *)
(* frame over SampleUnits; SpecNote runs getNote on the frequencies of     *)
(* NoteInputs.                                                             *)
(***************************************************************************)
EXTENDS Integers, Sequences, FiniteSets, TLC

(***************************************************************************)
(* JavaScript number values                                                *)
(***************************************************************************)
Abs(x) == IF x < 0 THEN -x ELSE x

RECURSIVE GCD(_, _)
GCD(a, b) == IF b = 0 THEN a ELSE GCD(b, a % b)

\* the finite number n/d in lowest terms with a positive denominator
Fin(n, d) ==
    LET s == IF d < 0 THEN -1 ELSE 1
        g == GCD(Abs(n), Abs(d))
    IN  [k |-> "fin", n |-> (s * n) \div g, d |-> (s * d) \div g]

Num(i) == [k |-> "fin", n |-> i, d |-> 1]
NaN == [k |-> "nan", n |-> 0, d |-> 1]
Infinity == [k |-> "inf", n |-> 1, d |-> 1]
NegInfinity == [k |-> "inf", n |-> -1, d |-> 1]
undefined == [k |-> "undef", n |-> 0, d |-> 1]

\* ToNumber: undefined converts to NaN in arithmetic and comparisons
ToNumber(x) == IF x.k = "undef" THEN NaN ELSE x

isNaN(x) == ToNumber(x).k = "nan"
Sign(x) == IF x.n > 0 THEN 1 ELSE IF x.n < 0 THEN -1 ELSE 0
Inf(s) == IF s < 0 THEN NegInfinity ELSE Infinity

\* x + y
Add(x0, y0) ==
    LET x == ToNumber(x0)
        y == ToNumber(y0)
    IN  IF x.k = "nan" \/ y.k = "nan" THEN NaN
        ELSE IF x.k = "inf" /\ y.k = "inf" THEN (IF x.n = y.n THEN x ELSE NaN)
        ELSE IF x.k = "inf" THEN x
        ELSE IF y.k = "inf" THEN y
        ELSE Fin(x.n * y.d + y.n * x.d, x.d * y.d)

\* -x
Neg(x0) ==
    LET x == ToNumber(x0)
    IN  IF x.k = "nan" THEN NaN ELSE [x EXCEPT !.n = -x.n]

\* x - y
Sub(x, y) == Add(x, Neg(y))

\* x * y
Mul(x0, y0) ==
    LET x == ToNumber(x0)
        y == ToNumber(y0)
    IN  IF x.k = "nan" \/ y.k = "nan" THEN NaN
        ELSE IF x.k = "inf" \/ y.k = "inf"
             THEN (IF Sign(x) * Sign(y) = 0 THEN NaN ELSE Inf(Sign(x) * Sign(y)))
        ELSE Fin(x.n * y.n, x.d * y.d)

\* x / y.  No divisor of the modelled code is a negative zero (every zero
\* divisor is a sum or a count), so a division by zero takes the dividend's sign.
Div(x0, y0) ==
    LET x == ToNumber(x0)
        y == ToNumber(y0)
    IN  IF x.k = "nan" \/ y.k = "nan" THEN NaN
        ELSE IF x.k = "inf" /\ y.k = "inf" THEN NaN
        ELSE IF x.k = "inf" THEN Inf(IF y.n < 0 THEN -x.n ELSE x.n)
        ELSE IF y.k = "inf" THEN Num(0)
        ELSE IF y.n = 0 THEN (IF x.n = 0 THEN NaN ELSE Inf(x.n))
        ELSE Fin(x.n * y.d, x.d * y.n)

\* x < y: false as soon as an operand is NaN (or undefined)
Lt(x0, y0) ==
    LET x == ToNumber(x0)
        y == ToNumber(y0)
    IN  IF x.k = "nan" \/ y.k = "nan" THEN FALSE
        ELSE IF x.k = "inf" THEN x.n < 0 /\ ~(y.k = "inf" /\ y.n < 0)
        ELSE IF y.k = "inf" THEN y.n > 0
        ELSE x.n * y.d < y.n * x.d

\* x > y
Gt(x, y) == Lt(y, x)

\* Math.abs(x)
MathAbs(x0) ==
    LET x == ToNumber(x0)
    IN  IF x.k = "nan" THEN NaN ELSE [x EXCEPT !.n = Abs(x.n)]

\* Math.floor(x)
MathFloor(x0) ==
    LET x == ToNumber(x0)
    IN  IF x.k = "fin" THEN Num(x.n \div x.d) ELSE x

\* the truthiness of a number in `if (a)`: 0, NaN and undefined are falsy
Truthy(x) == ~(x.k \in {"nan", "undef"}) /\ ~(x.k = "fin" /\ x.n = 0)

\* arr[i] for a JavaScript index i (0-based) that is a number value:
\* undefined outside 0 .. length-1 and for a non-integer or non-finite index
At(arr, i) ==
    IF i.k = "fin" /\ i.d = 1 /\ i.n >= 0 /\ i.n < Len(arr)
    THEN arr[i.n + 1] ELSE undefined

\* arr[i] for an integer index i
AtI(arr, i) == IF i >= 0 /\ i < Len(arr) THEN arr[i + 1] ELSE undefined

(***************************************************************************)
(* AutocorrelationDetector.getPitch (app.js) and the legacy                *)
(* Tuner.autoCorrelate, which is the same code line for line               *)
(***************************************************************************)
\* for (i = 0; i < SIZE; i++) rms += buffer[i] * buffer[i]
RECURSIVE sumSquares(_, _, _)
sumSquares(buffer, i, rms) ==
    IF i < Len(buffer)
    THEN sumSquares(buffer, i + 1, Add(rms, Mul(AtI(buffer, i), AtI(buffer, i))))
    ELSE rms

\* rms = Math.sqrt(rms / SIZE); if (rms < 0.01).  The square root is monotone,
\* so the gate is taken on the mean square: rms / SIZE < 0.0001.
belowNoiseFloor(buffer) ==
    Lt(Div(sumSquares(buffer, 0, Num(0)), Num(Len(buffer))), Fin(1, 10000))

\* const thres = 0.2
thres == Fin(1, 5)

\* for (i = 0; i < SIZE / 2; i++) if (Math.abs(buffer[i]) < thres) { r1 = i; break; }
RECURSIVE trimStart(_, _)
trimStart(buffer, i) ==
    IF 2 * i < Len(buffer)
    THEN IF Lt(MathAbs(AtI(buffer, i)), thres) THEN i ELSE trimStart(buffer, i + 1)
    ELSE 0

\* for (i = 1; i < SIZE / 2; i++) if (Math.abs(buffer[SIZE - i]) < thres) { r2 = SIZE - i; break; }
RECURSIVE trimEnd(_, _)
trimEnd(buffer, i) ==
    IF 2 * i < Len(buffer)
    THEN IF Lt(MathAbs(AtI(buffer, Len(buffer) - i)), thres)
         THEN Len(buffer) - i
         ELSE trimEnd(buffer, i + 1)
    ELSE Len(buffer) - 1

\* buffer.slice(r1, r2): a negative bound counts from the end
slice(buffer, r1, r2) ==
    LET from == IF r1 < 0 THEN (IF Len(buffer) + r1 < 0 THEN 0 ELSE Len(buffer) + r1)
                ELSE (IF r1 > Len(buffer) THEN Len(buffer) ELSE r1)
        to == IF r2 < 0 THEN (IF Len(buffer) + r2 < 0 THEN 0 ELSE Len(buffer) + r2)
              ELSE (IF r2 > Len(buffer) THEN Len(buffer) ELSE r2)
    IN  [j \in 1..(IF to > from THEN to - from ELSE 0) |-> buffer[from + j]]

\* for (j = 0; j < SIZE - i; j++) c[i] = c[i] + subBuffer[j] * subBuffer[j + i]
RECURSIVE lagProduct(_, _, _, _)
lagProduct(subBuffer, i, j, ci) ==
    IF j < Len(subBuffer) - i
    THEN lagProduct(subBuffer, i, j + 1,
                    Add(ci, Mul(AtI(subBuffer, j), AtI(subBuffer, j + i))))
    ELSE ci

\* the array c after the autocorrelation loops
autocorrelation(subBuffer) ==
    [i \in 1..Len(subBuffer) |-> lagProduct(subBuffer, i - 1, 0, Num(0))]

\* let d = 0; while (c[d] > c[d + 1]) d++
RECURSIVE skipFirstPeak(_, _)
skipFirstPeak(c, d) ==
    IF Gt(AtI(c, d), AtI(c, d + 1)) THEN skipFirstPeak(c, d + 1) ELSE d

\* for (i = d; i < SIZE; i++) if (c[i] > maxval) { maxval = c[i]; maxpos = i; }
RECURSIVE peakSearch(_, _, _, _)
peakSearch(c, i, maxval, maxpos) ==
    IF i < Len(c)
    THEN IF Gt(AtI(c, i), maxval)
         THEN peakSearch(c, i + 1, AtI(c, i), i)
         ELSE peakSearch(c, i + 1, maxval, maxpos)
    ELSE maxpos

\* the analysis window buffer.slice(r1, r2) of the trim scans
trimmed(buffer) == slice(buffer, trimStart(buffer, 0), trimEnd(buffer, 1))

\* the parabolic refinement and the result, from the array c
refineAndDivide(c, sampleRate) ==
    LET d == skipFirstPeak(c, 0)
        maxpos == peakSearch(c, d, Num(-1), -1)
        x1 == AtI(c, maxpos - 1)
        x2 == AtI(c, maxpos)
        x3 == AtI(c, maxpos + 1)
        a == Div(Sub(Add(x1, x3), Mul(Num(2), x2)), Num(2))
        b == Div(Sub(x3, x1), Num(2))
        T0 == IF Truthy(a) THEN Sub(Num(maxpos), Div(b, Mul(Num(2), a)))
              ELSE Num(maxpos)
    IN  Div(Num(sampleRate), T0)

AutocorrelationGetPitch(buffer, sampleRate) ==
    IF belowNoiseFloor(buffer) THEN Num(-1)
    ELSE refineAndDivide(autocorrelation(trimmed(buffer)), sampleRate)

(***************************************************************************)
(* YinDetector.getPitch                                                    *)
(***************************************************************************)
\* constructor(threshold = 0.1)
threshold == Fin(1, 10)

\* for (i = 0; i < yinBufferLength; i++) yinBuffer[tau] += (x[i] - x[i + tau])^2
RECURSIVE differenceSum(_, _, _, _, _)
differenceSum(x, tau, i, yinBufferLength, acc) ==
    IF i < yinBufferLength
    THEN LET delta == Sub(AtI(x, i), AtI(x, i + tau))
         IN  differenceSum(x, tau, i + 1, yinBufferLength, Add(acc, Mul(delta, delta)))
    ELSE acc

\* Step 1: yinBuffer after the difference function (yinBuffer[0] stays 0)
differenceFunction(x, yinBufferLength) ==
    [t \in 1..yinBufferLength |->
        IF t = 1 THEN Num(0) ELSE differenceSum(x, t - 1, 0, yinBufferLength, Num(0))]

\* Step 2: runningSum += yinBuffer[tau]; yinBuffer[tau] *= tau / runningSum
RECURSIVE cumulativeMean(_, _, _)
cumulativeMean(yinBuffer, tau, runningSum) ==
    IF tau < Len(yinBuffer)
    THEN LET rs == Add(runningSum, AtI(yinBuffer, tau))
         IN  cumulativeMean(
                 [yinBuffer EXCEPT ![tau + 1] = Mul(@, Div(Num(tau), rs))],
                 tau + 1, rs)
    ELSE yinBuffer

\* yinBuffer[0] = 1 (a write past the end of a typed array is ignored)
setFirst(yinBuffer) ==
    IF Len(yinBuffer) >= 1 THEN [yinBuffer EXCEPT ![1] = Num(1)] ELSE yinBuffer

\* while (i + 1 < yinBufferLength && yinBuffer[i + 1] < yinBuffer[i]) i++
RECURSIVE descend(_, _)
descend(yinBuffer, i) ==
    IF i + 1 < Len(yinBuffer) /\ Lt(AtI(yinBuffer, i + 1), AtI(yinBuffer, i))
    THEN descend(yinBuffer, i + 1)
    ELSE i

\* Step 3: the first dip below the threshold, followed to its minimum; -1 if none
RECURSIVE absoluteThreshold(_, _)
absoluteThreshold(yinBuffer, i) ==
    IF i < Len(yinBuffer)
    THEN IF Lt(AtI(yinBuffer, i), threshold)
         THEN descend(yinBuffer, i)
         ELSE absoluteThreshold(yinBuffer, i + 1)
    ELSE -1

\* the fallback: minVal = 100; the first global minimum below it
RECURSIVE globalMinimum(_, _, _, _)
globalMinimum(yinBuffer, i, minVal, tau) ==
    IF i < Len(yinBuffer)
    THEN IF Lt(AtI(yinBuffer, i), minVal)
         THEN globalMinimum(yinBuffer, i + 1, AtI(yinBuffer, i), i)
         ELSE globalMinimum(yinBuffer, i + 1, minVal, tau)
    ELSE tau

\* Step 4: parabolic interpolation, for an interior tau only
parabolic(yinBuffer, tau) ==
    IF tau > 1 /\ tau < Len(yinBuffer) - 1
    THEN LET s0 == AtI(yinBuffer, tau - 1)
             s1 == AtI(yinBuffer, tau)
             s2 == AtI(yinBuffer, tau + 1)
             adjustment ==
                 Div(Sub(s2, s0), Mul(Num(2), Sub(Sub(Mul(Num(2), s1), s2), s0)))
         IN  Add(Num(tau), adjustment)
    ELSE Num(tau)

\* the noise gate and the result, from the normalised yinBuffer
gateAndDivide(yinBuffer, sampleRate) ==
    LET found == absoluteThreshold(yinBuffer, 1)
        tau0 == IF found = -1 THEN globalMinimum(yinBuffer, 1, Num(100), -1)
                ELSE found
        tau == parabolic(yinBuffer, tau0)
        probability == Sub(Num(1), At(yinBuffer, MathFloor(tau)))
    IN  IF Lt(probability, Fin(3, 5)) THEN Num(-1)
        ELSE Div(Num(sampleRate), tau)

YinGetPitch(float32AudioBuffer, sampleRate) ==
    LET bufferSize == Len(float32AudioBuffer)
        yinBufferLength == bufferSize \div 2
        yinBuffer ==
            cumulativeMean(
                setFirst(differenceFunction(float32AudioBuffer, yinBufferLength)),
                1, Num(0))
    IN  gateAndDivide(yinBuffer, sampleRate)

\* a frame's samples: the model writes a sample in eighths (s stands for s/8),
\* which a Float32Array holds exactly
samples(frame) == [i \in 1..Len(frame) |-> Fin(frame[i], 8)]

(***************************************************************************)
(* Tuner.getNote                                                           *)
(***************************************************************************)
\* this.noteStrings
noteStrings == <<"C", "C#", "D", "D#", "E", "F", "F#", "G", "G#", "A", "A#", "B">>

\* p/q < c/e for positive integers, by continued-fraction comparison (no products)
RECURSIVE FracLess(_, _, _, _)
FracLess(p, q, c, e) ==
    IF p \div q # c \div e THEN p \div q < c \div e
    ELSE IF c % e = 0 THEN FALSE
    ELSE IF p % q = 0 THEN TRUE
    ELSE FracLess(e, c % e, q, p % q)

\* 2^((2c-1)/2400) for c = 1..1200, in millionths: the ratios at which
\* 1200 * log2(x), held to the nearest cent, steps from c-1 to c for x in [1, 2)
centSteps ==
    <<1000289, 1000867, 1001445, 1002024, 1002603, 1003182, 1003762, 1004342, 1004922, 1005502,
      1006083, 1006665, 1007246, 1007828, 1008411, 1008993, 1009576, 1010160, 1010743, 1011327,
      1011912, 1012496, 1013081, 1013667, 1014252, 1014838, 1015425, 1016011, 1016598, 1017186,
      1017774, 1018362, 1018950, 1019539, 1020128, 1020717, 1021307, 1021897, 1022488, 1023078,
      1023669, 1024261, 1024853, 1025445, 1026037, 1026630, 1027223, 1027817, 1028411, 1029005,
      1029600, 1030194, 1030790, 1031385, 1031981, 1032577, 1033174, 1033771, 1034368, 1034966,
      1035564, 1036162, 1036761, 1037360, 1037959, 1038559, 1039159, 1039760, 1040360, 1040961,
      1041563, 1042165, 1042767, 1043369, 1043972, 1044575, 1045179, 1045783, 1046387, 1046992,
      1047597, 1048202, 1048808, 1049414, 1050020, 1050627, 1051234, 1051841, 1052449, 1053057,
      1053665, 1054274, 1054883, 1055493, 1056103, 1056713, 1057323, 1057934, 1058546, 1059157,
      1059769, 1060381, 1060994, 1061607, 1062221, 1062834, 1063448, 1064063, 1064678, 1065293,
      1065908, 1066524, 1067140, 1067757, 1068374, 1068991, 1069609, 1070227, 1070845, 1071464,
      1072083, 1072702, 1073322, 1073942, 1074563, 1075184, 1075805, 1076427, 1077049, 1077671,
      1078294, 1078917, 1079540, 1080164, 1080788, 1081412, 1082037, 1082662, 1083288, 1083914,
      1084540, 1085167, 1085794, 1086421, 1087049, 1087677, 1088305, 1088934, 1089563, 1090193,
      1090823, 1091453, 1092084, 1092715, 1093346, 1093978, 1094610, 1095242, 1095875, 1096508,
      1097142, 1097776, 1098410, 1099045, 1099680, 1100315, 1100951, 1101587, 1102223, 1102860,
      1103497, 1104135, 1104773, 1105411, 1106050, 1106689, 1107329, 1107968, 1108609, 1109249,
      1109890, 1110531, 1111173, 1111815, 1112457, 1113100, 1113743, 1114387, 1115031, 1115675,
      1116320, 1116964, 1117610, 1118256, 1118902, 1119548, 1120195, 1120842, 1121490, 1122138,
      1122786, 1123435, 1124084, 1124734, 1125383, 1126034, 1126684, 1127335, 1127987, 1128638,
      1129291, 1129943, 1130596, 1131249, 1131903, 1132557, 1133211, 1133866, 1134521, 1135177,
      1135832, 1136489, 1137145, 1137802, 1138460, 1139118, 1139776, 1140434, 1141093, 1141753,
      1142412, 1143072, 1143733, 1144394, 1145055, 1145716, 1146378, 1147041, 1147704, 1148367,
      1149030, 1149694, 1150358, 1151023, 1151688, 1152353, 1153019, 1153686, 1154352, 1155019,
      1155686, 1156354, 1157022, 1157691, 1158360, 1159029, 1159699, 1160369, 1161039, 1161710,
      1162381, 1163053, 1163725, 1164397, 1165070, 1165743, 1166417, 1167091, 1167765, 1168440,
      1169115, 1169790, 1170466, 1171143, 1171819, 1172496, 1173174, 1173852, 1174530, 1175208,
      1175887, 1176567, 1177247, 1177927, 1178607, 1179288, 1179970, 1180652, 1181334, 1182016,
      1182699, 1183383, 1184066, 1184751, 1185435, 1186120, 1186805, 1187491, 1188177, 1188864,
      1189551, 1190238, 1190926, 1191614, 1192302, 1192991, 1193680, 1194370, 1195060, 1195751,
      1196442, 1197133, 1197825, 1198517, 1199209, 1199902, 1200595, 1201289, 1201983, 1202678,
      1203373, 1204068, 1204764, 1205460, 1206156, 1206853, 1207550, 1208248, 1208946, 1209645,
      1210344, 1211043, 1211743, 1212443, 1213143, 1213844, 1214546, 1215247, 1215950, 1216652,
      1217355, 1218058, 1218762, 1219466, 1220171, 1220876, 1221581, 1222287, 1222993, 1223700,
      1224407, 1225115, 1225822, 1226531, 1227239, 1227948, 1228658, 1229368, 1230078, 1230789,
      1231500, 1232212, 1232924, 1233636, 1234349, 1235062, 1235775, 1236490, 1237204, 1237919,
      1238634, 1239350, 1240066, 1240782, 1241499, 1242217, 1242934, 1243652, 1244371, 1245090,
      1245809, 1246529, 1247249, 1247970, 1248691, 1249413, 1250135, 1250857, 1251580, 1252303,
      1253026, 1253750, 1254475, 1255199, 1255925, 1256650, 1257376, 1258103, 1258830, 1259557,
      1260285, 1261013, 1261742, 1262471, 1263200, 1263930, 1264660, 1265391, 1266122, 1266854,
      1267586, 1268318, 1269051, 1269784, 1270518, 1271252, 1271986, 1272721, 1273457, 1274193,
      1274929, 1275665, 1276402, 1277140, 1277878, 1278616, 1279355, 1280094, 1280834, 1281574,
      1282314, 1283055, 1283797, 1284538, 1285281, 1286023, 1286766, 1287510, 1288254, 1288998,
      1289743, 1290488, 1291234, 1291980, 1292726, 1293473, 1294220, 1294968, 1295716, 1296465,
      1297214, 1297964, 1298714, 1299464, 1300215, 1300966, 1301718, 1302470, 1303222, 1303975,
      1304729, 1305483, 1306237, 1306992, 1307747, 1308502, 1309259, 1310015, 1310772, 1311529,
      1312287, 1313045, 1313804, 1314563, 1315323, 1316083, 1316843, 1317604, 1318365, 1319127,
      1319889, 1320652, 1321415, 1322178, 1322942, 1323707, 1324471, 1325237, 1326002, 1326769,
      1327535, 1328302, 1329070, 1329838, 1330606, 1331375, 1332144, 1332914, 1333684, 1334454,
      1335225, 1335997, 1336769, 1337541, 1338314, 1339087, 1339861, 1340635, 1341410, 1342185,
      1342960, 1343736, 1344513, 1345289, 1346067, 1346845, 1347623, 1348401, 1349180, 1349960,
      1350740, 1351520, 1352301, 1353083, 1353864, 1354647, 1355429, 1356213, 1356996, 1357780,
      1358565, 1359350, 1360135, 1360921, 1361707, 1362494, 1363281, 1364069, 1364857, 1365646,
      1366435, 1367224, 1368014, 1368805, 1369596, 1370387, 1371179, 1371971, 1372764, 1373557,
      1374351, 1375145, 1375939, 1376734, 1377530, 1378326, 1379122, 1379919, 1380716, 1381514,
      1382312, 1383111, 1383910, 1384709, 1385510, 1386310, 1387111, 1387913, 1388714, 1389517,
      1390320, 1391123, 1391927, 1392731, 1393536, 1394341, 1395147, 1395953, 1396759, 1397566,
      1398374, 1399182, 1399990, 1400799, 1401608, 1402418, 1403229, 1404039, 1404851, 1405662,
      1406474, 1407287, 1408100, 1408914, 1409728, 1410542, 1411357, 1412173, 1412989, 1413805,
      1414622, 1415439, 1416257, 1417076, 1417894, 1418714, 1419533, 1420353, 1421174, 1421995,
      1422817, 1423639, 1424462, 1425285, 1426108, 1426932, 1427757, 1428581, 1429407, 1430233,
      1431059, 1431886, 1432713, 1433541, 1434369, 1435198, 1436027, 1436857, 1437687, 1438518,
      1439349, 1440181, 1441013, 1441846, 1442679, 1443512, 1444346, 1445181, 1446016, 1446851,
      1447687, 1448524, 1449361, 1450198, 1451036, 1451874, 1452713, 1453553, 1454393, 1455233,
      1456074, 1456915, 1457757, 1458599, 1459442, 1460285, 1461129, 1461973, 1462818, 1463663,
      1464509, 1465355, 1466201, 1467049, 1467896, 1468744, 1469593, 1470442, 1471292, 1472142,
      1472992, 1473843, 1474695, 1475547, 1476400, 1477253, 1478106, 1478960, 1479815, 1480670,
      1481525, 1482381, 1483238, 1484095, 1484952, 1485810, 1486669, 1487528, 1488387, 1489247,
      1490108, 1490969, 1491830, 1492692, 1493555, 1494418, 1495281, 1496145, 1497009, 1497874,
      1498740, 1499606, 1500472, 1501339, 1502207, 1503075, 1503943, 1504812, 1505682, 1506552,
      1507422, 1508293, 1509164, 1510036, 1510909, 1511782, 1512655, 1513529, 1514404, 1515279,
      1516154, 1517030, 1517907, 1518784, 1519661, 1520540, 1521418, 1522297, 1523177, 1524057,
      1524937, 1525818, 1526700, 1527582, 1528465, 1529348, 1530232, 1531116, 1532000, 1532886,
      1533771, 1534657, 1535544, 1536431, 1537319, 1538207, 1539096, 1539985, 1540875, 1541765,
      1542656, 1543548, 1544439, 1545332, 1546225, 1547118, 1548012, 1548906, 1549801, 1550697,
      1551593, 1552489, 1553386, 1554284, 1555182, 1556080, 1556980, 1557879, 1558779, 1559680,
      1560581, 1561483, 1562385, 1563288, 1564191, 1565095, 1565999, 1566904, 1567809, 1568715,
      1569621, 1570528, 1571436, 1572344, 1573252, 1574161, 1575071, 1575981, 1576891, 1577803,
      1578714, 1579626, 1580539, 1581452, 1582366, 1583280, 1584195, 1585110, 1586026, 1586943,
      1587860, 1588777, 1589695, 1590614, 1591533, 1592452, 1593372, 1594293, 1595214, 1596136,
      1597058, 1597981, 1598904, 1599828, 1600752, 1601677, 1602603, 1603529, 1604455, 1605382,
      1606310, 1607238, 1608166, 1609096, 1610025, 1610956, 1611886, 1612818, 1613750, 1614682,
      1615615, 1616548, 1617482, 1618417, 1619352, 1620288, 1621224, 1622161, 1623098, 1624036,
      1624974, 1625913, 1626852, 1627792, 1628733, 1629674, 1630616, 1631558, 1632500, 1633444,
      1634387, 1635332, 1636277, 1637222, 1638168, 1639115, 1640062, 1641009, 1641957, 1642906,
      1643855, 1644805, 1645755, 1646706, 1647658, 1648610, 1649562, 1650515, 1651469, 1652423,
      1653378, 1654333, 1655289, 1656246, 1657203, 1658160, 1659118, 1660077, 1661036, 1661996,
      1662956, 1663917, 1664878, 1665840, 1666803, 1667766, 1668729, 1669694, 1670658, 1671624,
      1672589, 1673556, 1674523, 1675490, 1676458, 1677427, 1678396, 1679366, 1680336, 1681307,
      1682279, 1683251, 1684223, 1685196, 1686170, 1687144, 1688119, 1689094, 1690070, 1691047,
      1692024, 1693002, 1693980, 1694959, 1695938, 1696918, 1697898, 1698879, 1699861, 1700843,
      1701826, 1702809, 1703793, 1704777, 1705762, 1706748, 1707734, 1708721, 1709708, 1710696,
      1711684, 1712673, 1713663, 1714653, 1715644, 1716635, 1717627, 1718619, 1719612, 1720606,
      1721600, 1722595, 1723590, 1724586, 1725582, 1726579, 1727577, 1728575, 1729574, 1730573,
      1731573, 1732574, 1733575, 1734576, 1735579, 1736581, 1737585, 1738589, 1739593, 1740598,
      1741604, 1742610, 1743617, 1744625, 1745633, 1746641, 1747650, 1748660, 1749671, 1750682,
      1751693, 1752705, 1753718, 1754731, 1755745, 1756759, 1757774, 1758790, 1759806, 1760823,
      1761841, 1762858, 1763877, 1764896, 1765916, 1766936, 1767957, 1768979, 1770001, 1771023,
      1772047, 1773071, 1774095, 1775120, 1776146, 1777172, 1778199, 1779226, 1780254, 1781283,
      1782312, 1783342, 1784372, 1785403, 1786435, 1787467, 1788500, 1789533, 1790567, 1791602,
      1792637, 1793673, 1794709, 1795746, 1796784, 1797822, 1798861, 1799900, 1800940, 1801980,
      1803022, 1804063, 1805106, 1806149, 1807192, 1808236, 1809281, 1810327, 1811373, 1812419,
      1813466, 1814514, 1815563, 1816612, 1817661, 1818711, 1819762, 1820814, 1821866, 1822918,
      1823972, 1825026, 1826080, 1827135, 1828191, 1829247, 1830304, 1831362, 1832420, 1833478,
      1834538, 1835598, 1836658, 1837720, 1838781, 1839844, 1840907, 1841971, 1843035, 1844100,
      1845165, 1846231, 1847298, 1848365, 1849433, 1850502, 1851571, 1852641, 1853711, 1854782,
      1855854, 1856926, 1857999, 1859073, 1860147, 1861222, 1862297, 1863373, 1864450, 1865527,
      1866605, 1867684, 1868763, 1869842, 1870923, 1872004, 1873085, 1874168, 1875251, 1876334,
      1877418, 1878503, 1879588, 1880674, 1881761, 1882848, 1883936, 1885025, 1886114, 1887204,
      1888294, 1889385, 1890477, 1891569, 1892662, 1893755, 1894850, 1895944, 1897040, 1898136,
      1899233, 1900330, 1901428, 1902527, 1903626, 1904726, 1905826, 1906928, 1908029, 1909132,
      1910235, 1911339, 1912443, 1913548, 1914654, 1915760, 1916867, 1917974, 1919082, 1920191,
      1921301, 1922411, 1923522, 1924633, 1925745, 1926858, 1927971, 1929085, 1930200, 1931315,
      1932431, 1933547, 1934664, 1935782, 1936901, 1938020, 1939140, 1940260, 1941381, 1942503,
      1943625, 1944748, 1945872, 1946996, 1948121, 1949247, 1950373, 1951500, 1952627, 1953756,
      1954884, 1956014, 1957144, 1958275, 1959406, 1960539, 1961671, 1962805, 1963939, 1965074,
      1966209, 1967345, 1968482, 1969619, 1970757, 1971896, 1973035, 1974175, 1975316, 1976457,
      1977599, 1978742, 1979885, 1981029, 1982174, 1983319, 1984465, 1985611, 1986759, 1987907,
      1989055, 1990204, 1991354, 1992505, 1993656, 1994808, 1995961, 1997114, 1998268, 1999422>>

\* the number of centSteps entries up to n/d, between lo and hi, by bisection
RECURSIVE stepsUpTo(_, _, _, _)
stepsUpTo(n, d, lo, hi) ==
    IF lo = hi THEN lo
    ELSE LET mid == (lo + hi + 1) \div 2
         IN  IF FracLess(n, d, centSteps[mid], 1000000)
             THEN stepsUpTo(n, d, lo, mid - 1)
             ELSE stepsUpTo(n, d, mid, hi)

\* 1200 * log2(n/d) to the nearest cent, for a positive rational n/d: the
\* octave is found by doubling and halving, the cent within it from centSteps
RECURSIVE log2Cents(_, _)
log2Cents(n, d) ==
    IF n >= 2 * d THEN 1200 + log2Cents(n, 2 * d)
    ELSE IF n < d THEN log2Cents(2 * n, d) - 1200
    ELSE stepsUpTo(n, d, 0, 1200)

\* 12 * (Math.log(x) / Math.log(2)): a finite result is held in hundredths of a
\* semitone (where a double holds 52 binary places); NaN for a negative or
\* NaN x, -Infinity for 0, Infinity for Infinity
semitones(x0) ==
    LET x == ToNumber(x0)
    IN  IF x.k = "nan" THEN NaN
        ELSE IF x.n < 0 THEN NaN
        ELSE IF x.k = "inf" THEN Infinity
        ELSE IF x.n = 0 THEN NegInfinity
        ELSE Fin(log2Cents(x.n, x.d), 100)

\* Math.round: the nearest integer, a tie going to the larger one
MathRound(x0) ==
    LET x == ToNumber(x0)
    IN  IF x.k = "fin" THEN MathFloor(Add(x, Fin(1, 2))) ELSE x

\* midi % 12: the remainder takes the sign of the dividend; NaN for a
\* non-finite midi
rem12(midi) ==
    IF midi.k # "fin" THEN NaN
    ELSE IF midi.n >= 0 THEN Num(midi.n % 12)
    ELSE Num(-((-midi.n) % 12))

\* 1200 * Math.log(frequency / desiredFreq) / Math.log(2) with
\* desiredFreq = 440 * Math.pow(2, (midi - 69) / 12): the logarithm of the
\* quotient is noteNum / 12 less (midi - 69) / 12
centsOff(noteNum, midi) ==
    Mul(Num(100), Sub(noteNum, Sub(midi, Num(69))))

\* the record getNote returns
getNote(frequency) ==
    LET noteNum == semitones(Div(frequency, Num(440)))
        midi == Add(MathRound(noteNum), Num(69))
        note == rem12(midi)
        name == IF note.k = "fin" /\ note.n >= 0 THEN noteStrings[note.n + 1]
                ELSE "undefined"
        octave == Sub(MathFloor(Div(midi, Num(12))), Num(1))
        cents == centsOff(noteNum, midi)
    IN  [name |-> name, octave |-> octave, frequency |-> frequency,
         cents |-> cents, note |-> note]

(***************************************************************************)
(* Bounds of the model                                                     *)
(***************************************************************************)
\* the length of a captured frame (the program's FFTSIZE of 2048, scaled down)
BufLen == 6
\* update() runs the detector at most this many times in a behaviour
MaxFrames == 6
\* start() calls suspended at `await getUserMedia` at the same time
MaxPendingStarts == 2
\* update callbacks queued by requestAnimationFrame at the same time
MaxCallbacks == 2

\* TunerDefaults.SmoothingWindow
SmoothingWindow == 5

\* AudioContext.sampleRate of a new context in a session
SampleRates == {48000}

\* the frames the analyser delivers in a session (samples in eighths):
\* silence and a full-scale square wave of period 2
silentFrame == [i \in 1..BufLen |-> 0]
squareFrame == [i \in 1..BufLen |-> IF i % 2 = 1 THEN 4 ELSE -4]
Frames == {silentFrame, squareFrame}

\* the values an algorithm-select option can carry: the two keys of
\* this.detectors, a name the object does not have, and a name it inherits
\* from Object.prototype
AlgoNames == {"yin", "autocorr", "nonexistent", "constructor"}

(***************************************************************************)
(* Tuner state                                                             *)
(***************************************************************************)
VARIABLES
    isPlaying,          \* this.isPlaying
    audioContext,       \* this.audioContext: 0 for null, else its sampleRate
    currentDetector,    \* this.currentDetector: "yin", "autocorr", or "inherited"
                        \* for a property of Object.prototype (no getPitch)
    frequencyBuffer,    \* this.frequencyBuffer, in eighths
    smoothingBuffer,    \* this.smoothingBuffer
    pendingStarts,      \* start() calls suspended at await getUserMedia
    callbacks,          \* update callbacks queued by requestAnimationFrame
    frequency,          \* update(): the detector's result for the last frame
    smoothedFreq,       \* update(): the value last handed to getNote
    noteData,           \* the argument of the last updateUI call
    frames,             \* history: how many times update() ran the detector
    pushed              \* history: every value pushed on smoothingBuffer

vars == <<isPlaying, audioContext, currentDetector, frequencyBuffer,
          smoothingBuffer, pendingStarts, callbacks, frequency, smoothedFreq,
          noteData, frames, pushed>>

\* updateUI(null)
noNote == [name |-> "-", octave |-> undefined, frequency |-> undefined,
           cents |-> undefined, note |-> undefined]

\* this.detectors[algo]: an own key gives its detector, a name inherited from
\* Object.prototype gives that (truthy) member, any other name undefined
detectors(algo) ==
    IF algo \in {"yin", "autocorr"} THEN algo
    ELSE IF algo = "constructor" THEN "inherited"
    ELSE "undefined"

\* this.currentDetector.getPitch(buffer, sampleRate)
getPitch(detector, buffer, sampleRate) ==
    IF detector = "yin" THEN YinGetPitch(buffer, sampleRate)
    ELSE AutocorrelationGetPitch(buffer, sampleRate)

\* the detectors' results on the frames of the model
pitchTable ==
    [det \in {"yin", "autocorr"}, frame \in Frames, rate \in SampleRates |->
        getPitch(det, samples(frame), rate)]

\* the constructor
Init ==
    /\ isPlaying = FALSE
    /\ audioContext = 0
    /\ currentDetector = "yin"
    /\ frequencyBuffer = [i \in 1..BufLen |-> 0]
    /\ smoothingBuffer = <<>>
    /\ pendingStarts = 0
    /\ callbacks = 0
    /\ frequency = undefined
    /\ smoothedFreq = undefined
    /\ noteData = noNote
    /\ frames = 0
    /\ pushed = <<>>

\* a variant of the no-pitch test that forgets the sentinel
noPitchNaNOnly(f) == isNaN(f)

\* if (frequency === -1 || isNaN(frequency)) return
noPitch(f) == f = Num(-1) \/ isNaN(f)

\* a variant of the eviction that drops the newest value (pop for shift)
pushAndPop(buffer, f) ==
    LET appended == Append(buffer, f)
    IN  IF Len(appended) > SmoothingWindow
        THEN SubSeq(appended, 1, Len(appended) - 1)
        ELSE appended

\* this.smoothingBuffer.push(frequency);
\* if (this.smoothingBuffer.length > this.smoothingWindow) this.smoothingBuffer.shift()
pushAndShift(buffer, f) ==
    LET appended == Append(buffer, f)
    IN  IF Len(appended) > SmoothingWindow THEN Tail(appended) ELSE appended

\* buffer.reduce((a, b) => a + b), for a non-empty buffer
RECURSIVE reduceSum(_, _, _)
reduceSum(buffer, i, acc) ==
    IF i <= Len(buffer) THEN reduceSum(buffer, i + 1, Add(acc, buffer[i])) ELSE acc

\* a variant of the average that divides by the window size, not the length
averageOverWindow(buffer) ==
    Div(reduceSum(buffer, 2, buffer[1]), Num(SmoothingWindow))

\* this.smoothingBuffer.reduce((a, b) => a + b) / this.smoothingBuffer.length
average(buffer) == Div(reduceSum(buffer, 2, buffer[1]), Num(Len(buffer)))

\* update() once the strategy call has returned f: a no-pitch result ends the
\* frame; any other is pushed, smoothed, mapped to a note and shown
smoothAndShow(f) ==
    /\ frequency' = f
    /\ frames' = frames + 1
    /\ IF noPitch(f)
       THEN UNCHANGED <<smoothingBuffer, smoothedFreq, noteData, pushed>>
       ELSE /\ smoothingBuffer' = pushAndShift(smoothingBuffer, f)
            /\ smoothedFreq' = average(smoothingBuffer')
            /\ noteData' = getNote(smoothedFreq')
            /\ pushed' = Append(pushed, f)

\* update() from `requestAnimationFrame(...)` on, with isPlaying true: the
\* callback is queued, the frame is captured and the detector runs on it.
\* A currentDetector without getPitch throws a TypeError at the strategy call.
updateBody(queued, frame) ==
    /\ frames < MaxFrames
    /\ queued < MaxCallbacks
    /\ callbacks' = queued + 1
    /\ frequencyBuffer' = frame
    /\ IF currentDetector = "inherited"
       THEN UNCHANGED <<frequency, smoothingBuffer, smoothedFreq, noteData,
                        frames, pushed>>
       ELSE smoothAndShow(pitchTable[currentDetector, frame, audioContext])

\* the start button's click handler while !this.isPlaying, in a browser that
\* has getUserMedia: start() runs up to `await getUserMedia` with a new
\* AudioContext, which replaces the one a pending start() created
ClickStart ==
    /\ ~isPlaying
    /\ pendingStarts < MaxPendingStarts
    /\ \E rate \in SampleRates : audioContext' = rate
    /\ pendingStarts' = pendingStarts + 1
    /\ UNCHANGED <<isPlaying, currentDetector, frequencyBuffer, smoothingBuffer,
                   callbacks, frequency, smoothedFreq, noteData, frames, pushed>>

\* the start button's click handler while this.isPlaying: stop()
ClickStop ==
    /\ isPlaying
    /\ isPlaying' = FALSE
    /\ audioContext' = 0
    /\ noteData' = noNote
    /\ UNCHANGED <<currentDetector, frequencyBuffer, smoothingBuffer,
                   pendingStarts, callbacks, frequency, smoothedFreq, frames, pushed>>

\* getUserMedia resolves and start() resumes: with this.audioContext null
\* (stopped meanwhile) createMediaStreamSource throws into the catch block;
\* otherwise isPlaying is set and update() is called
Resolve ==
    /\ pendingStarts > 0
    /\ pendingStarts' = pendingStarts - 1
    /\ IF audioContext = 0
       THEN UNCHANGED <<isPlaying, audioContext, currentDetector, frequencyBuffer,
                        smoothingBuffer, callbacks, frequency, smoothedFreq,
                        noteData, frames, pushed>>
       ELSE /\ isPlaying' = TRUE
            /\ \E frame \in Frames : updateBody(callbacks, frame)
            /\ UNCHANGED <<audioContext, currentDetector>>

\* getUserMedia rejects: the catch block of start() reports the error
Reject ==
    /\ pendingStarts > 0
    /\ pendingStarts' = pendingStarts - 1
    /\ UNCHANGED <<isPlaying, audioContext, currentDetector, frequencyBuffer,
                   smoothingBuffer, callbacks, frequency, smoothedFreq, noteData,
                   frames, pushed>>

\* an animation frame runs one queued callback: update()
AnimationFrame ==
    /\ callbacks > 0
    /\ IF ~isPlaying
       THEN /\ callbacks' = callbacks - 1
            /\ UNCHANGED <<frequencyBuffer, smoothingBuffer, frequency,
                           smoothedFreq, noteData, frames, pushed>>
       ELSE \E frame \in Frames : updateBody(callbacks - 1, frame)
    /\ UNCHANGED <<isPlaying, audioContext, currentDetector, pendingStarts>>

\* the algorithm select's change handler, for the option value algo
AlgoSelected(algo) ==
    /\ currentDetector' =
          IF detectors(algo) # "undefined" THEN detectors(algo) ELSE currentDetector
    /\ UNCHANGED <<isPlaying, audioContext, frequencyBuffer, smoothingBuffer,
                   pendingStarts, callbacks, frequency, smoothedFreq, noteData,
                   frames, pushed>>

\* the algorithm select changes to any of its options
AlgoSelect == \E algo \in AlgoNames : AlgoSelected(algo)

Next ==
    \/ ClickStart
    \/ ClickStop
    \/ Resolve
    \/ Reject
    \/ AnimationFrame
    \/ AlgoSelect

Spec == Init /\ [][Next]_vars

(***************************************************************************)
(* The detectors on every frame: update() at its strategy call, in a       *)
(* playing session, for any captured frame over SampleUnits                *)
(***************************************************************************)
\* the sample values of a frame, in eighths: -0.5, 0, 0.125, 0.5
SampleUnits == {-4, 0, 1, 4}

\* the sample rates of the contexts the detectors are run at
DetectorRates == {44100, 48000}

InitDetect ==
    /\ isPlaying = TRUE
    /\ audioContext \in DetectorRates
    /\ currentDetector \in {"yin", "autocorr"}
    /\ frequencyBuffer \in [1..BufLen -> SampleUnits]
    /\ smoothingBuffer = <<>>
    /\ pendingStarts = 0
    /\ callbacks = 1
    /\ frequency = undefined
    /\ smoothedFreq = undefined
    /\ noteData = noNote
    /\ frames = 0
    /\ pushed = <<>>

\* the strategy call on the captured frame and the rest of update()
DetectFrame ==
    /\ frames = 0
    /\ smoothAndShow(getPitch(currentDetector, samples(frequencyBuffer), audioContext))
    /\ UNCHANGED <<isPlaying, audioContext, currentDetector, frequencyBuffer,
                   pendingStarts, callbacks>>

SpecDetect == InitDetect /\ [][DetectFrame]_vars

(***************************************************************************)
(* getNote on its own: update() at the call getNote(smoothedFreq), for the *)
(* frequencies of NoteInputs                                               *)
(***************************************************************************)
\* the lowest inputs are the quarters of a hertz up to MaxQuarterHz / 4
MaxQuarterHz == 80

\* frequencies > 0: the low range in quarter-hertz steps, some notes, and
\* 84.8216 Hz, which stands for the double 84.82159539743674 halfway between
\* E2 and F2 (12 * log2(f / 440) evaluates to -28.5 there)
NoteInputs ==
    {Fin(q, 4) : q \in 1..MaxQuarterHz}
        \cup {Num(440), Fin(46616, 100), Fin(26163, 100), Fin(8241, 100),
              Num(110), Num(24000), Fin(848216, 10000)}

InitNote ==
    /\ isPlaying = TRUE
    /\ audioContext \in SampleRates
    /\ currentDetector = "yin"
    /\ frequencyBuffer = [i \in 1..BufLen |-> 0]
    /\ smoothingBuffer = <<>>
    /\ pendingStarts = 0
    /\ callbacks = 1
    /\ frequency = undefined
    /\ smoothedFreq \in NoteInputs
    /\ noteData = noNote
    /\ frames = 0
    /\ pushed = <<>>

\* const note = this.getNote(smoothedFreq); this.updateUI(note)
MapNote ==
    /\ noteData = noNote
    /\ noteData' = getNote(smoothedFreq)
    /\ UNCHANGED <<isPlaying, audioContext, currentDetector, frequencyBuffer,
                   smoothingBuffer, pendingStarts, callbacks, frequency,
                   smoothedFreq, frames, pushed>>

SpecNote == InitNote /\ [][MapNote]_vars

(***************************************************************************)
(* Properties of the session                                               *)
(***************************************************************************)
\* in every reachable state a playing tuner has an open AudioContext
PlayingHasContext == isPlaying => audioContext # 0

\* a step in which update() ran the detector
DetectorRan == frames' = frames + 1

\* C2: a frame whose detector result is the sentinel leaves the smoothing
\* window as it was, and hands no frequency and no note on for that frame
C2_NoPitchKeepsWindow ==
    [][(DetectorRan /\ frequency' = Num(-1)) =>
          /\ smoothingBuffer' = smoothingBuffer
          /\ pushed' = pushed
          /\ smoothedFreq' = smoothedFreq
          /\ noteData' = noteData]_vars

\* C2 happens: two no-pitch frames have run among at least two valid ones, and
\* the window and the note shown are those of the valid frames
C2_Witness ==
    /\ frequency = Num(-1)
    /\ Len(pushed) >= 2
    /\ frames >= Len(pushed) + 2
    /\ smoothingBuffer = pushed
    /\ noteData # noNote

\* the last n values of a sequence
LastN(seq, n) == SubSeq(seq, Len(seq) - n + 1, Len(seq))

\* C3: the window holds at most 5 values, and they are the last min(n, 5) of
\* the n values pushed so far, in arrival order
C3_WindowIsLastFive ==
    /\ Len(smoothingBuffer) <= 5
    /\ smoothingBuffer =
          LastN(pushed, IF Len(pushed) < 5 THEN Len(pushed) ELSE 5)

\* C3 happens: a sixth value was pushed and the oldest, different from its
\* successor, is no longer in the window
C3_Witness ==
    /\ Len(pushed) = 6
    /\ pushed[1] # pushed[2]
    /\ smoothingBuffer[1] = pushed[2]
    /\ smoothingBuffer[5] = pushed[6]

\* the sum of a sequence of numbers, from its end
RECURSIVE SumOf(_)
SumOf(seq) ==
    IF seq = <<>> THEN Num(0)
    ELSE Add(SumOf(SubSeq(seq, 1, Len(seq) - 1)), seq[Len(seq)])

\* the arithmetic mean of a non-empty sequence of numbers
MeanOf(seq) == Div(SumOf(seq), Num(Len(seq)))

\* the window after pushing the values of a sequence in order
RECURSIVE pushAll(_, _)
pushAll(buffer, seq) ==
    IF seq = <<>> THEN buffer
    ELSE pushAll(pushAndShift(buffer, Head(seq)), Tail(seq))

\* the smoother fed 100, 102, 98, 101, 99 and then 200 holds 102, 98, 101, 99,
\* 200 and averages them to 120
smootherExample ==
    LET fed == [i \in 1..6 |-> Num(<<100, 102, 98, 101, 99, 200>>[i])]
    IN  /\ pushAll(<<>>, fed) = SubSeq(fed, 2, 6)
        /\ average(pushAll(<<>>, fed)) = Num(120)

\* C4: the frequency handed to getNote (and shown) is the arithmetic mean of the
\* window as it stands after the push and the eviction; 100, 102, 98, 101, 99
\* and then 200 give the mean of 102, 98, 101, 99, 200
C4_SmoothedIsWindowMean ==
    /\ pushed # <<>> => smoothedFreq = MeanOf(smoothingBuffer)
    /\ noteData # noNote => noteData.frequency = MeanOf(smoothingBuffer)
    /\ smootherExample

\* C4 happens: a frame was smoothed over a window of several different values,
\* and one over a full window after an eviction
C4_Witness ==
    /\ Len(pushed) = 6
    /\ frequency = pushed[6]
    /\ smoothingBuffer[4] # smoothingBuffer[5]
    /\ smoothedFreq # frequency
    /\ noteData # noNote

\* a finite frequency greater than 0
PositiveFinite(f) == f.k = "fin" /\ f.n > 0

\* C5: stop() after one or more valid frames leaves the smoothing window empty
\* (so that the next session's first estimate is smoothed over itself alone)
C5_StopClearsWindow ==
    [][(/\ ClickStop
        /\ pushed # <<>>
        /\ \A i \in 1..Len(pushed) : PositiveFinite(pushed[i]))
          => smoothingBuffer' = <<>>]_vars

\* this.detectors' own keys
DetectorKeys == {"yin", "autocorr"}

\* C6: selecting a name that is not a key of the detector table leaves the
\* current detector as it was
C6_UnknownNameKeepsDetector ==
    [][\A algo \in AlgoNames \ DetectorKeys :
          AlgoSelected(algo) => currentDetector' = currentDetector]_vars

\* C7: at most one update() callback is pending at any time
C7_AtMostOneCallback == callbacks <= 1

\* C8: every value in the smoothing window is a finite frequency > 0, and every
\* detector result is the sentinel or a finite frequency > 0
C8_WindowHoldsFrequencies ==
    /\ \A i \in 1..Len(smoothingBuffer) : PositiveFinite(smoothingBuffer[i])
    /\ frames > 0 => (frequency = Num(-1) \/ PositiveFinite(frequency))

(***************************************************************************)
(* Properties of the detectors and of getNote                              *)
(***************************************************************************)
\* C1: on a silent frame (every sample 0) the detector, YIN or
\* autocorrelation, returns the no-pitch sentinel -1 and nothing is pushed
C1_SilenceIsNoPitch ==
    (frames = 1 /\ \A i \in 1..BufLen : frequencyBuffer[i] = 0)
        => (frequency = Num(-1) /\ smoothingBuffer = <<>>)

\* C9: when the trimmed analysis window of the autocorrelation detector has
\* fewer than 3 samples, the detector returns the no-pitch sentinel
C9_ShortWindowIsNoPitch ==
    (/\ frames = 1
     /\ currentDetector = "autocorr"
     /\ ~belowNoiseFloor(samples(frequencyBuffer))
     /\ Len(trimmed(samples(frequencyBuffer))) < 3)
        => frequency = Num(-1)

\* C10: for a frequency > 0, a negative MIDI number included, the pitch-class
\* index getNote computes is one of 0..11 and the name one of the 12
\* pitch-class strings
C10_NameIsPitchClass ==
    noteData # noNote =>
        /\ noteData.note \in {Num(i) : i \in 0..11}
        /\ noteData.name \in {noteStrings[i] : i \in 1..12}

\* C11: for a frequency > 0 the cents offset getNote returns lies in the
\* half-open interval (-50, 50]: a frequency halfway between two semitones
\* maps to the lower one with cents = +50, never to the upper one with -50
C11_CentsAboveMinus50UpTo50 ==
    noteData # noNote =>
        /\ Gt(noteData.cents, Num(-50))
        /\ ~Gt(noteData.cents, Num(50))

====
